---- MODULE Spec2Model ----
(***************************************************************************)
(* Model of images_of/bot.py (class Bot) of the ImagesOfNetwork            *)
(* repository: the global filter, the age gate, the recency cache, the     *)
(* forward with its error classification, and the supervisory run loop;    *)
(* and of main of images_of/entrypoints/expand.py, the script that stands  *)
(* up a new subreddit step by step.                                        *)
(*                                                                         *)
(* Strings are sequences of one-character strings, so that lower(),        *)
(* strip(), slicing and the two regular expressions are computed, not      *)
(* assumed.                                                                *)
(***************************************************************************)
EXTENDS Integers, Sequences, FiniteSets, TLC

VARIABLES
    should_post,      \* Bot.should_post
    nsfw_ok,          \* settings.NSFW_OK
    blacklist_users,  \* Bot.blacklist_users
    blacklist_subs,   \* Bot.blacklist_subs
    recent_posts,     \* Bot.recent_posts, the deque(maxlen=50)
    stream,           \* the generator made once by submission_stream: "live" or "finished"
    pc,               \* position of Bot.run
    restarts,         \* number of 'Stream ended. Restarting.' warnings logged
    slept,            \* seconds slept by the last backoff
    post,             \* the post the loop body was last run for (NoPost: none
                      \*   since the stream last ended or raised)
    trace,            \* what _do_post did with it, in order
    appended,         \* history: every log_entry ever appended to recent_posts, in order
    start_at,         \* expand.main: the --start-at option, None when not given
    only,             \* expand.main: the --only option, None when not given
    description,      \* expand.main: the --description option, empty when not given
    new_sub,          \* expand.main: the sub argument
    multireddit,      \* settings.MULTIREDDIT is set
    step,             \* expand.main: index of the next if statement; 0: main not invoked
    attempted,        \* history: the steps main has called, in order
    raised            \* the exception that ended main, "none" so far

botvars == <<should_post, nsfw_ok, blacklist_users, blacklist_subs, recent_posts,
             stream, pc, restarts, slept, post, trace, appended>>
expandvars == <<start_at, only, description, new_sub, multireddit, step,
                attempted, raised>>
vars == <<botvars, expandvars>>

None == "None"

\* the provisioning script is not run
ExpandIdle ==
    /\ start_at = None
    /\ only = None
    /\ description = <<>>
    /\ new_sub = <<>>
    /\ multireddit = FALSE
    /\ step = 0
    /\ attempted = <<>>
    /\ raised = "none"

-----------------------------------------------------------------------------
(* Strings *)

Uppers == <<"A", "B", "F", "O", "P", "I", "C", "S", "J", "G", "U", "R", "M">>
Lowers == <<"a", "b", "f", "o", "p", "i", "c", "s", "j", "g", "u", "r", "m">>

UpperSet == {Uppers[i] : i \in DOMAIN Uppers}
LowerOf == [c \in UpperSet |-> Lowers[CHOOSE i \in DOMAIN Uppers : Uppers[i] = c]]

\* str.lower() on one character
LowerChar(c) == IF c \in UpperSet THEN LowerOf[c] ELSE c

\* str.lower()
Lower(s) == [i \in DOMAIN s |-> LowerChar(s[i])]

IsSpace(c) == c \in {" ", "\t", "\n"}

RECURSIVE LStrip(_)
LStrip(s) == IF s # <<>> /\ IsSpace(Head(s)) THEN LStrip(Tail(s)) ELSE s

RECURSIVE RStrip(_)
RStrip(s) ==
    IF s # <<>> /\ IsSpace(s[Len(s)]) THEN RStrip(SubSeq(s, 1, Len(s) - 1)) ELSE s

\* str.strip()
Strip(s) == RStrip(LStrip(s))

\* s[n:]
DropPrefix(s, n) == SubSeq(s, n + 1, Len(s))

\* str.splitlines(): the lines without their terminators; no trailing empty line
RECURSIVE SplitLines(_)
SplitLines(s) ==
    IF s = <<>> THEN <<>>
    ELSE IF \E i \in DOMAIN s : s[i] = "\n"
         THEN LET k == CHOOSE i \in DOMAIN s :
                          s[i] = "\n" /\ \A j \in 1..(i - 1) : s[j] # "\n"
              IN  <<SubSeq(s, 1, k - 1)>> \o SplitLines(SubSeq(s, k + 1, Len(s)))
         ELSE <<s>>

-----------------------------------------------------------------------------
(* Regular expressions of Bot.__init__ *)

\* one pattern character against one subject character under re.IGNORECASE;
\* an unescaped "." of the configured string matches any character but newline
PatChar(p, c) == IF p = "." THEN c # "\n" ELSE LowerChar(p) = LowerChar(c)

\* the literal alternative alt matches s from position k on, to the end of s
MatchAt(alt, s, k) ==
    /\ k >= 1
    /\ Len(s) - k + 1 = Len(alt)
    /\ \A i \in DOMAIN alt : PatChar(alt[i], s[k + i - 1])

\* "$" matches at the end of the subject and before a final newline
Ends(s) == {s} \cup (IF s # <<>> /\ s[Len(s)] = "\n"
                     THEN {SubSeq(s, 1, Len(s) - 1)} ELSE {})
\* domain_re = re.compile('^(d1|d2|...)$', re.IGNORECASE); domain_re.search(s)
DomainSearch(domains, s) ==
    \E i \in DOMAIN domains : \E e \in Ends(s) : MatchAt(domains[i], e, 1)

\* ext_re = re.compile('(e1|e2|...)$', re.IGNORECASE); ext_re.search(s)
ExtSearch(extensions, s) ==
    \E i \in DOMAIN extensions : \E e \in Ends(s) :
        \E k \in 1..(Len(e) + 1) : MatchAt(extensions[i], e, k)

-----------------------------------------------------------------------------
(* Configuration (images_of.settings) *)

Str_imgur == <<"i", "m", "g", "u", "r", ".", "c", "o", "m">>
Str_jpg == <<".", "j", "p", "g">>
Str_png == <<".", "p", "n", "g">>

DOMAINS == <<Str_imgur>>
EXTENSIONS == <<Str_jpg, Str_png>>
\* the names of the destinations, in registry order
SLAVE_SUBS == <<"subA", "subB">>

RETRY_MINUTES == 3
MAXLEN == 50
SECONDS_PER_DAY == 86400

-----------------------------------------------------------------------------
(* Bot._read_blacklist *)

NonEmptyLines(lines) == SelectSeq(lines, LAMBDA l : l # <<>>)

\* set(line.strip().lower()[3:] for line in content.splitlines() if line)
ReadBlacklist(content) ==
    LET lines == NonEmptyLines(SplitLines(content))
    IN  {DropPrefix(Lower(Strip(lines[i])), 3) : i \in DOMAIN lines}

-----------------------------------------------------------------------------
(* Bot.check *)

\* variant: the domain and the extension must both match
CheckDomainAndExt(p) ==
    IF ~nsfw_ok /\ p.over_18 THEN FALSE
    ELSE IF Lower(p.author) \in blacklist_users THEN FALSE
    ELSE IF Lower(p.subreddit) \in blacklist_subs THEN FALSE
    ELSE IF DomainSearch(DOMAINS, p.domain)
    THEN ExtSearch(EXTENSIONS, p.url)
    ELSE FALSE

\* variant: the names are compared as they are written
CheckCaseSensitive(p) ==
    IF ~nsfw_ok /\ p.over_18 THEN FALSE
    ELSE IF p.author \in blacklist_users THEN FALSE
    ELSE IF p.subreddit \in blacklist_subs THEN FALSE
    ELSE IF DomainSearch(DOMAINS, p.domain) THEN TRUE
    ELSE IF ExtSearch(EXTENSIONS, p.url) THEN TRUE
    ELSE FALSE

Check(p) ==
    IF ~nsfw_ok /\ p.over_18 THEN FALSE
    ELSE IF Lower(p.author) \in blacklist_users THEN FALSE
    ELSE IF Lower(p.subreddit) \in blacklist_subs THEN FALSE
    ELSE IF DomainSearch(DOMAINS, p.domain) THEN TRUE
    ELSE IF ExtSearch(EXTENSIONS, p.url) THEN TRUE
    ELSE FALSE

\* Subreddit.check(post): the destination's own acceptance predicate
SubCheck(sub, p) == sub \in p.accepts

-----------------------------------------------------------------------------
(* Bot.verify_age *)

\* (datetime.utcnow() - created).days
AgeDays(now, created_utc) == (now - created_utc) \div SECONDS_PER_DAY

\* variant: the comparison is not strict
VerifyAgeAtLeastTwo(p, verified, now) ==
    IF verified THEN TRUE
    ELSE AgeDays(now, p.created_utc) >= 2

\* verified: the post carries the age_verified attribute
VerifyAge(p, verified, now) ==
    IF verified THEN TRUE
    ELSE AgeDays(now, p.created_utc) > 2

-----------------------------------------------------------------------------
(* Bot.recent_posts *)

\* variant: a plain list, nothing is dropped
DequeAppendUnbounded(q, x) == Append(q, x)

\* variant: the deque holds one item less
DequeAppendShort(q, x) ==
    IF Len(q) >= MAXLEN - 1 THEN Append(Tail(q), x) ELSE Append(q, x)

\* variant: a full deque drops its rightmost item
DequeAppendDropNewest(q, x) ==
    IF Len(q) >= MAXLEN THEN Append(SubSeq(q, 1, Len(q) - 1), x) ELSE Append(q, x)

\* deque(maxlen=MAXLEN).append(x): a full deque drops its leftmost item
DequeAppend(q, x) ==
    IF Len(q) >= MAXLEN THEN Append(Tail(q), x) ELSE Append(q, x)

\* x in deque
InDeque(x, q) == \E i \in DOMAIN q : q[i] = x

-----------------------------------------------------------------------------
(* Bot.crosspost *)

Ev(op, sub, res) == [op |-> op, sub |-> sub, res |-> res]

\* variant: only the conflict is caught
ExceptConflictOnly(sub, exc) ==
    IF exc = "AlreadySubmitted"
    THEN [trace |-> <<Ev("log_info", sub, "already_submitted")>>, exc |-> "none"]
    ELSE [trace |-> <<>>, exc |-> exc]

\* the except clauses of crosspost, for an exception raised in its try block
Except(sub, exc) ==
    IF exc = "AlreadySubmitted"
    THEN [trace |-> <<Ev("log_info", sub, "already_submitted")>>, exc |-> "none"]
    ELSE IF exc = "APIException"
    THEN [trace |-> <<Ev("log_warning", sub, "api_exception")>>, exc |-> "none"]
    ELSE [trace |-> <<>>, exc |-> exc]

\* variant: the comment is made after the try statement, whatever submit did
ForwardCommentAlways(sub, post_flag, pub) ==
    LET t0 == <<Ev("log_info", sub, "x-posting")>>
    IN  IF ~post_flag
        THEN [trace |-> t0 \o <<Ev("log_debug", sub, "commenting")>>, exc |-> "none"]
        ELSE LET s == IF pub.submit = "ok" THEN [trace |-> <<>>, exc |-> "none"]
                      ELSE Except(sub, pub.submit)
                 t1 == t0 \o <<Ev("submit", sub, pub.submit)>> \o s.trace
             IN  IF s.exc # "none"
                 THEN [trace |-> t1, exc |-> s.exc]
                 ELSE LET t2 == t1 \o <<Ev("log_debug", sub, "commenting"),
                                        Ev("add_comment", sub, pub.comment)>>
                          h == IF pub.comment = "ok" THEN [trace |-> <<>>, exc |-> "none"]
                               ELSE Except(sub, pub.comment)
                      IN  [trace |-> t2 \o h.trace, exc |-> h.exc]

\* variant: add_comment is not guarded by should_post
ForwardUnguardedComment(sub, post_flag, pub) ==
    LET t0 == <<Ev("log_info", sub, "x-posting")>>
    IN  IF ~post_flag
        THEN [trace |-> t0 \o <<Ev("log_debug", sub, "commenting"),
                                Ev("add_comment", sub, pub.comment)>>,
              exc |-> IF pub.comment \in {"HTTPException", "ConnectionError"}
                      THEN pub.comment ELSE "none"]
        ELSE IF pub.submit # "ok"
        THEN LET h == Except(sub, pub.submit)
             IN  [trace |-> t0 \o <<Ev("submit", sub, pub.submit)>> \o h.trace,
                  exc |-> h.exc]
        ELSE LET t1 == t0 \o <<Ev("submit", sub, "ok"),
                               Ev("log_debug", sub, "commenting"),
                               Ev("add_comment", sub, pub.comment)>>
             IN  IF pub.comment # "ok"
                 THEN LET h == Except(sub, pub.comment)
                      IN  [trace |-> t1 \o h.trace, exc |-> h.exc]
                 ELSE [trace |-> t1, exc |-> "none"]

\* the try block of crosspost; pub is what the platform answers to submit and
\* to add_comment for this destination
Forward(sub, post_flag, pub) ==
    LET t0 == <<Ev("log_info", sub, "x-posting")>>
    IN  IF ~post_flag
        THEN [trace |-> t0 \o <<Ev("log_debug", sub, "commenting")>>, exc |-> "none"]
        ELSE IF pub.submit # "ok"
        THEN LET h == Except(sub, pub.submit)
             IN  [trace |-> t0 \o <<Ev("submit", sub, pub.submit)>> \o h.trace,
                  exc |-> h.exc]
        ELSE LET t1 == t0 \o <<Ev("submit", sub, "ok"),
                               Ev("log_debug", sub, "commenting"),
                               Ev("add_comment", sub, pub.comment)>>
             IN  IF pub.comment # "ok"
                 THEN LET h == Except(sub, pub.comment)
                      IN  [trace |-> t1 \o h.trace, exc |-> h.exc]
                 ELSE [trace |-> t1, exc |-> "none"]

\* variant: the pair is recorded without looking it up first
CrosspostNoLookup(p, sub, cache, post_flag, pub) ==
    LET log_entry == <<p.url, sub>>
        f == Forward(sub, post_flag, pub)
    IN  [cache |-> DequeAppend(cache, log_entry),
         new |-> <<log_entry>>,
         exc |-> f.exc,
         trace |-> <<Ev("append", sub, "recent_posts"),
                     Ev("log_debug", sub, "added")>> \o f.trace]

\* variant: the pair is taken back when the forward did not succeed
CrosspostRollback(p, sub, cache, post_flag, pub) ==
    LET log_entry == <<p.url, sub>>
    IN  IF InDeque(log_entry, cache)
        THEN [cache |-> cache, new |-> <<>>, exc |-> "none",
              trace |-> <<Ev("log_info", sub, "already_posted")>>]
        ELSE LET f == Forward(sub, post_flag, pub)
                 failed == \E k \in DOMAIN f.trace :
                               /\ f.trace[k].op \in {"submit", "add_comment"}
                               /\ f.trace[k].res # "ok"
             IN  [cache |-> IF failed THEN cache ELSE DequeAppend(cache, log_entry),
                  new |-> IF failed THEN <<>> ELSE <<log_entry>>,
                  exc |-> f.exc,
                  trace |-> <<Ev("append", sub, "recent_posts"),
                              Ev("log_debug", sub, "added")>> \o f.trace]

\* variant: a pair found in the cache is moved to its newest end
CrosspostRefresh(p, sub, cache, post_flag, pub) ==
    LET log_entry == <<p.url, sub>>
    IN  IF InDeque(log_entry, cache)
        THEN [cache |-> Append(SelectSeq(cache, LAMBDA e : e # log_entry), log_entry),
              new |-> <<>>, exc |-> "none",
              trace |-> <<Ev("log_info", sub, "already_posted")>>]
        ELSE LET f == Forward(sub, post_flag, pub)
             IN  [cache |-> DequeAppend(cache, log_entry),
                  new |-> <<log_entry>>,
                  exc |-> f.exc,
                  trace |-> <<Ev("append", sub, "recent_posts"),
                              Ev("log_debug", sub, "added")>> \o f.trace]

Crosspost(p, sub, cache, post_flag, pub) ==
    LET log_entry == <<p.url, sub>>
    IN  IF InDeque(log_entry, cache)
        THEN [cache |-> cache, new |-> <<>>, exc |-> "none",
              trace |-> <<Ev("log_info", sub, "already_posted")>>]
        ELSE LET f == Forward(sub, post_flag, pub)
             IN  [cache |-> DequeAppend(cache, log_entry),
                  new |-> <<log_entry>>,
                  exc |-> f.exc,
                  trace |-> <<Ev("append", sub, "recent_posts"),
                              Ev("log_debug", sub, "added")>> \o f.trace]

-----------------------------------------------------------------------------
(* Bot._do_post *)

\* the loop over self.subreddits from index i on
RECURSIVE SubLoop(_, _, _, _, _, _, _)

\* variant: the pair is recorded before the age gate is asked
SubLoopRecordEarly(i, p, cache, verified, now, post_flag, pubs) ==
    IF i > Len(SLAVE_SUBS)
    THEN [cache |-> cache, new |-> <<>>, exc |-> "none", trace |-> <<>>]
    ELSE LET sub == SLAVE_SUBS[i]
         IN  IF ~SubCheck(sub, p)
             THEN LET r == SubLoop(i + 1, p, cache, verified, now, post_flag, pubs)
                  IN  [r EXCEPT !.trace = <<Ev("sub_check", sub, "False")>> \o @]
             ELSE IF ~VerifyAge(p, verified, now)
             THEN [cache |-> IF InDeque(<<p.url, sub>>, cache) THEN cache
                             ELSE DequeAppend(cache, <<p.url, sub>>),
                   new |-> IF InDeque(<<p.url, sub>>, cache) THEN <<>>
                           ELSE << <<p.url, sub>> >>,
                   exc |-> "none",
                   trace |-> <<Ev("sub_check", sub, "True"),
                               Ev("verify_age", sub, "False")>>]
             ELSE LET c == Crosspost(p, sub, cache, post_flag, pubs[sub])
                      t == <<Ev("sub_check", sub, "True"),
                             Ev("verify_age", sub, "True")>> \o c.trace
                  IN  IF c.exc # "none"
                      THEN [c EXCEPT !.trace = t]
                      ELSE LET r == SubLoop(i + 1, p, c.cache, TRUE, now,
                                            post_flag, pubs)
                           IN  [cache |-> r.cache, new |-> c.new \o r.new,
                                exc |-> r.exc, trace |-> t \o r.trace]

\* variant: a failed age gate skips this destination only
SubLoopSkipOne(i, p, cache, verified, now, post_flag, pubs) ==
    IF i > Len(SLAVE_SUBS)
    THEN [cache |-> cache, new |-> <<>>, exc |-> "none", trace |-> <<>>]
    ELSE LET sub == SLAVE_SUBS[i]
         IN  IF ~SubCheck(sub, p)
             THEN LET r == SubLoop(i + 1, p, cache, verified, now, post_flag, pubs)
                  IN  [r EXCEPT !.trace = <<Ev("sub_check", sub, "False")>> \o @]
             ELSE IF ~VerifyAge(p, verified, now)
             THEN LET r == SubLoop(i + 1, p, cache, verified, now, post_flag, pubs)
                  IN  [r EXCEPT !.trace = <<Ev("sub_check", sub, "True"),
                                            Ev("verify_age", sub, "False")>> \o @]
             ELSE LET c == Crosspost(p, sub, cache, post_flag, pubs[sub])
                      t == <<Ev("sub_check", sub, "True"),
                             Ev("verify_age", sub, "True")>> \o c.trace
                  IN  IF c.exc # "none"
                      THEN [c EXCEPT !.trace = t]
                      ELSE LET r == SubLoop(i + 1, p, c.cache, TRUE, now,
                                            post_flag, pubs)
                           IN  [cache |-> r.cache, new |-> c.new \o r.new,
                                exc |-> r.exc, trace |-> t \o r.trace]

SubLoop(i, p, cache, verified, now, post_flag, pubs) ==
    IF i > Len(SLAVE_SUBS)
    THEN [cache |-> cache, new |-> <<>>, exc |-> "none", trace |-> <<>>]
    ELSE LET sub == SLAVE_SUBS[i]
         IN  IF ~SubCheck(sub, p)
             THEN LET r == SubLoop(i + 1, p, cache, verified, now, post_flag, pubs)
                  IN  [r EXCEPT !.trace = <<Ev("sub_check", sub, "False")>> \o @]
             ELSE IF ~VerifyAge(p, verified, now)
             THEN [cache |-> cache, new |-> <<>>, exc |-> "none",
                   trace |-> <<Ev("sub_check", sub, "True"),
                               Ev("verify_age", sub, "False")>>]
             ELSE LET c == Crosspost(p, sub, cache, post_flag, pubs[sub])
                      t == <<Ev("sub_check", sub, "True"),
                             Ev("verify_age", sub, "True")>> \o c.trace
                  IN  IF c.exc # "none"
                      THEN [c EXCEPT !.trace = t]
                      ELSE LET r == SubLoop(i + 1, p, c.cache, TRUE, now,
                                            post_flag, pubs)
                           IN  [cache |-> r.cache, new |-> c.new \o r.new,
                                exc |-> r.exc, trace |-> t \o r.trace]

\* variant: the verdict of the global filter is not acted on
DoPostUnfiltered(p, cache, now, post_flag, pubs) ==
    LET r == SubLoop(1, p, cache, FALSE, now, post_flag, pubs)
    IN  [r EXCEPT !.trace = <<Ev("check", "-", IF Check(p) THEN "True" ELSE "False")>> \o @]

DoPost(p, cache, now, post_flag, pubs) ==
    IF ~Check(p)
    THEN [cache |-> cache, new |-> <<>>, exc |-> "none",
          trace |-> <<Ev("check", "-", "False")>>]
    ELSE LET r == SubLoop(1, p, cache, FALSE, now, post_flag, pubs)
         IN  [r EXCEPT !.trace = <<Ev("check", "-", "True")>> \o @]
-----------------------------------------------------------------------------
(* Inputs: wiki pages, posts, clock readings, platform answers *)

N_Foo == <<"F", "o", "o">>
N_foo == <<"f", "o", "o">>
N_bar == <<"b", "a", "r">>
N_BAR == <<"B", "A", "R">>
N_Jim == <<"J", "i", "m">>
N_Pics == <<"P", "i", "c", "s">>
N_pics == <<"p", "i", "c", "s">>
N_aww == <<"a", "w", "w">>
Pre_u == <<"/", "u", "/">>
Pre_r == <<"/", "r", "/">>
NL == <<"\n">>
SP == <<" ">>

\* wiki page 'userblacklist': "/u/foo\n"  and  " /u/BAR \n\n/u/Foo"
UserPages == {Pre_u \o N_foo \o NL,
              SP \o Pre_u \o N_BAR \o SP \o NL \o NL \o Pre_u \o N_Foo}
\* wiki page 'subredditblacklist': "/r/Pics"  and  "/r/gifs\n/r/pics\n"
SubPages == {Pre_r \o N_Pics,
             Pre_r \o <<"g", "i", "f", "s">> \o NL \o Pre_r \o N_pics \o NL}

Url_a_JPG == <<"a", ".", "J", "P", "G">>
Url_b == <<"b">>
Dom_Imgur == <<"I", "m", "g", "u", "r", ".", "c", "o", "m">>
Dom_other == <<"x", ".", "o", "r", "g">>

Digits == <<"0", "1", "2", "3", "4", "5", "6", "7", "8", "9">>
\* the n-th distinct URL of a long run of posts
Url(n) == <<"u", Digits[(n \div 10) + 1], Digits[(n % 10) + 1]>>

AllSubs == {SLAVE_SUBS[i] : i \in DOMAIN SLAVE_SUBS}

\* datetime.utcnow(), in seconds
Now == 10 * SECONDS_PER_DAY
Clock == {Now}
Created(days, secs) == Now - (days * SECONDS_PER_DAY + secs)

NoPost == [url |-> <<>>, domain |-> <<>>, over_18 |-> FALSE, author |-> <<>>,
           subreddit |-> <<>>, created_utc |-> 0, accepts |-> {}]

\* what submit and add_comment may answer
Answers == {"ok", "AlreadySubmitted", "APIException", "HTTPException",
            "ConnectionError"}
OkAnswer == [submit |-> "ok", comment |-> "ok"]
SubAnswers == {[submit |-> a, comment |-> "ok"] : a \in Answers}
                 \cup {[submit |-> "ok", comment |-> a] : a \in Answers}

\* the answers that can matter for post p: all calls succeed, or the calls for
\* one destination that is asked fail as one of choices says
PlatformAnswers(p, choices) ==
    LET asked == IF should_post /\ Check(p)
                 THEN {sub \in AllSubs : SubCheck(sub, p)} ELSE {}
    IN  {[sub \in AllSubs |-> OkAnswer]} \cup
        {[sub \in AllSubs |-> IF sub = bad THEN a ELSE OkAnswer] :
            bad \in asked, a \in choices}

-----------------------------------------------------------------------------
(* Bot.run *)

MaxRestarts == 2

\* for post in stream: self._do_post(post)   -- one item
NextPost(p, now, pubs) ==
    /\ pc = "iter"
    /\ stream = "live"
    /\ LET r == DoPost(p, recent_posts, now, should_post, pubs)
       IN  /\ post' = p
           /\ trace' = r.trace
           /\ recent_posts' = r.cache
           /\ appended' = appended \o r.new
           /\ pc' = CASE r.exc = "none" -> "iter"
                      [] r.exc = "HTTPException" -> "except_http"
                      [] r.exc = "ConnectionError" -> "except_conn"
                      [] OTHER -> "exited"
    /\ UNCHANGED <<should_post, nsfw_ok, blacklist_users, blacklist_subs,
                   stream, restarts, slept>>
    /\ UNCHANGED expandvars

\* the generator raises while it fetches: a generator that raised is finished
StreamRaises(exc, handler) ==
    /\ pc = "iter"
    /\ stream = "live"
    /\ stream' = "finished"
    /\ pc' = handler
    /\ post' = NoPost
    /\ trace' = <<>>
    /\ UNCHANGED <<should_post, nsfw_ok, blacklist_users, blacklist_subs,
                   recent_posts, restarts, slept, appended>>
    /\ UNCHANGED expandvars

StreamHTTPException == StreamRaises("HTTPException", "except_http")
StreamConnectionError == StreamRaises("ConnectionError", "except_conn")

\* the for loop runs out (StopIteration, at once on a finished generator):
\* logging.warning('Stream ended. Restarting.') and the while loop goes round
\* with the stream object made before the loop
StreamEnded ==
    /\ pc = "iter"
    /\ restarts < MaxRestarts
    /\ stream' = "finished"
    /\ restarts' = restarts + 1
    /\ pc' = "iter"
    /\ post' = NoPost
    /\ trace' = <<>>
    /\ UNCHANGED <<should_post, nsfw_ok, blacklist_users, blacklist_subs,
                   recent_posts, slept, appended>>
    /\ UNCHANGED expandvars

\* except HTTPException: two log calls, then sleep(60 * RETRY_MINUTES); the
\* module binds no name sleep, so the call raises NameError out of run
ExceptHTTPException ==
    /\ pc = "except_http"
    /\ pc' = "exited"
    /\ UNCHANGED <<should_post, nsfw_ok, blacklist_users, blacklist_subs,
                   recent_posts, stream, restarts, slept, post, trace, appended>>
    /\ UNCHANGED expandvars

\* except requests.ConnectionError: log, continue
ExceptConnectionError ==
    /\ pc = "except_conn"
    /\ pc' = "iter"
    /\ UNCHANGED <<should_post, nsfw_ok, blacklist_users, blacklist_subs,
                   recent_posts, stream, restarts, slept, post, trace, appended>>
    /\ UNCHANGED expandvars

-----------------------------------------------------------------------------
(* The Bot over a stream of varied posts and platform answers *)

MainPosts ==
    [url : {Url_a_JPG, Url_b}, domain : {Str_imgur},
     over_18 : BOOLEAN, author : {N_bar}, subreddit : {N_aww},
     created_utc : {Created(2, SECONDS_PER_DAY - 1), Created(3, 0)},
     accepts : SUBSET AllSubs]

\* Bot.__init__, then the first line of run
InitBot(flags, nsfw, upages, spages) ==
    /\ should_post \in flags
    /\ nsfw_ok \in nsfw
    /\ \E c \in upages : blacklist_users = ReadBlacklist(c)
    /\ \E c \in spages : blacklist_subs = ReadBlacklist(c)
    /\ recent_posts = <<>>
    /\ stream = "live"
    /\ pc = "iter"
    /\ restarts = 0
    /\ slept = 0
    /\ post = NoPost
    /\ trace = <<>>
    /\ appended = <<>>
    /\ ExpandIdle

Init == InitBot(BOOLEAN, {FALSE}, {Pre_u \o N_foo \o NL}, {Pre_r \o N_Pics})

RunNextPost ==
    \E p \in MainPosts, now \in Clock :
        \E pubs \in PlatformAnswers(p, SubAnswers) : NextPost(p, now, pubs)

Next ==
    \/ RunNextPost
    \/ StreamHTTPException
    \/ StreamConnectionError
    \/ StreamEnded
    \/ ExceptHTTPException
    \/ ExceptConnectionError

Spec == Init /\ [][Next]_vars
-----------------------------------------------------------------------------
(* The global filter over varied posts and wiki pages; the platform accepts *)
(* every forward                                                            *)

FilterPosts ==
    [url : {Url_a_JPG, Url_b}, domain : {Dom_Imgur, Dom_other},
     over_18 : BOOLEAN, author : {N_Foo, N_bar, N_Jim},
     subreddit : {N_Pics, N_aww},
     created_utc : {Created(3, 0)}, accepts : {AllSubs}]

InitFilter == InitBot({TRUE}, BOOLEAN, UserPages, SubPages)

FilterNextPost ==
    \E p \in FilterPosts, now \in Clock :
        \E pubs \in PlatformAnswers(p, {OkAnswer}) : NextPost(p, now, pubs)

SpecFilter == InitFilter /\ [][FilterNextPost]_vars

-----------------------------------------------------------------------------
(* The age gate over authors of varied account age *)

AgePosts ==
    [url : {Url_a_JPG, Url_b}, domain : {Str_imgur}, over_18 : {FALSE},
     author : {N_bar}, subreddit : {N_aww},
     created_utc : {Created(1, SECONDS_PER_DAY - 1), Created(2, 0),
                    Created(2, SECONDS_PER_DAY - 1), Created(3, 0),
                    Created(3, 1), Created(9, 0), Now + 1},
     accepts : SUBSET AllSubs]

InitAge == InitBot({TRUE}, {FALSE}, {Pre_u \o N_foo \o NL}, {Pre_r \o N_Pics})

AgeNextPost ==
    \E p \in AgePosts, now \in Clock :
        \E pubs \in PlatformAnswers(p, {OkAnswer}) : NextPost(p, now, pubs)

SpecAge == InitAge /\ [][AgeNextPost]_vars

-----------------------------------------------------------------------------
(* The recency cache over a long run of posts: new URLs one after another,  *)
(* each accepted by every destination, and reposts of the first URL,        *)
(* accepted by any of the destinations                                      *)

MaxUrl == 27

\* the URLs recorded so far are Url(1) .. Url(Recorded)
Recorded ==
    IF appended = <<>> THEN 0
    ELSE CHOOSE n \in 1..MaxUrl :
            /\ \E i \in DOMAIN appended : appended[i][1] = Url(n)
            /\ \A m \in (n + 1)..MaxUrl :
                   \A i \in DOMAIN appended : appended[i][1] # Url(m)

CachePosts ==
    [url : {Url(1)}, domain : {Str_imgur}, over_18 : {FALSE}, author : {N_bar},
     subreddit : {N_aww}, created_utc : {Created(3, 0)},
     accepts : SUBSET AllSubs]
    \cup
    [url : {Url(n) : n \in {Recorded + 1} \cap 2..MaxUrl}, domain : {Str_imgur},
     over_18 : {FALSE}, author : {N_bar}, subreddit : {N_aww},
     created_utc : {Created(3, 0)}, accepts : {AllSubs}]

InitCache == InitBot({TRUE}, {FALSE}, {Pre_u \o N_foo \o NL}, {Pre_r \o N_Pics})

CacheNextPost ==
    \E p \in CachePosts, now \in Clock :
        \E pubs \in PlatformAnswers(p, {OkAnswer}) : NextPost(p, now, pubs)

SpecCache == InitCache /\ [][CacheNextPost]_vars
-----------------------------------------------------------------------------
(* expand.main: the provisioning script *)

start_points == <<"creation", "settings", "mods", "wiki", "flair",
                  "multireddit", "notifications">>

\* _start_points.index(point)
Index(point) == CHOOSE i \in DOMAIN start_points : start_points[i] = point

\* should_do of main
ShouldDo(point) ==
    IF only # None THEN Index(only) = Index(point)
    ELSE IF start_at # None THEN Index(start_at) <= Index(point)
    ELSE TRUE

\* str.startswith
StartsWith(s, prefix) ==
    Len(prefix) <= Len(s) /\ SubSeq(s, 1, Len(prefix)) = prefix

Str_ImagesOf == <<"I", "m", "a", "g", "e", "s", "O", "f">>

\* what calling the step at point does: copy_settings without a description,
\* for a sub named ImagesOf..., calls .join on the list that slicing the
\* result of re.findall gives (AttributeError); add_to_multi without a
\* multireddit calls the integer logging.WARNING (TypeError); the exceptions
\* of the platform that the steps catch (SubredditExists, RateLimitExceeded)
\* end inside the step
StepRaises(point) ==
    CASE point = "settings" /\ description = <<>> /\ StartsWith(new_sub, Str_ImagesOf)
             -> "AttributeError"
      [] point = "multireddit" /\ ~multireddit -> "TypeError"
      [] OTHER -> "none"

\* one if statement of main: if should_do(point): <the step>(r, sub)
MainStep(i) ==
    /\ step = i
    /\ raised = "none"
    /\ IF ShouldDo(start_points[i])
       THEN /\ attempted' = Append(attempted, start_points[i])
            /\ raised' = StepRaises(start_points[i])
            /\ step' = IF StepRaises(start_points[i]) = "none" THEN i + 1 ELSE i
       ELSE /\ step' = i + 1
            /\ UNCHANGED <<attempted, raised>>
    /\ UNCHANGED <<start_at, only, description, new_sub, multireddit>>
    /\ UNCHANGED botvars

Creation == MainStep(1)
Settings == MainStep(2)
Mods == MainStep(3)
Wiki == MainStep(4)
Flair == MainStep(5)
Multireddit == MainStep(6)
Notifications == MainStep(7)

\* main has returned or an exception has left it
MainEnded == step = Len(start_points) + 1 \/ raised # "none"

N_ImagesOfX == Str_ImagesOf \o <<"X">>
N_imagesofx == <<"i", "m", "a", "g", "e", "s", "o", "f", "x">>
Desc == <<"d">>
Points == {start_points[i] : i \in DOMAIN start_points}

\* the command line as click hands it to main, and the settings
InitExpand ==
    /\ start_at \in Points \cup {None}
    /\ only \in Points \cup {None}
    /\ description \in {<<>>, Desc}
    /\ new_sub \in {N_ImagesOfX, N_imagesofx, N_Pics}
    /\ multireddit \in BOOLEAN
    /\ step = 1
    /\ attempted = <<>>
    /\ raised = "none"
    /\ should_post = FALSE
    /\ nsfw_ok = FALSE
    /\ blacklist_users = <<>>
    /\ blacklist_subs = <<>>
    /\ recent_posts = <<>>
    /\ stream = "live"
    /\ pc = "exited"
    /\ restarts = 0
    /\ slept = 0
    /\ post = NoPost
    /\ trace = <<>>
    /\ appended = <<>>

NextExpand ==
    \/ Creation
    \/ Settings
    \/ Mods
    \/ Wiki
    \/ Flair
    \/ Multireddit
    \/ Notifications

SpecExpand == InitExpand /\ [][NextExpand]_vars
-----------------------------------------------------------------------------
(* Properties *)

\* the events of the trace tr with operation op
Events(tr, op) == {k \in DOMAIN tr : tr[k].op = op}
\* crosspost was called for destination sub in the pass tr
Called(tr, sub) ==
    \E k \in DOMAIN tr :
        tr[k].op = "verify_age" /\ tr[k].sub = sub /\ tr[k].res = "True"
Did(tr, op, sub) == \E k \in DOMAIN tr : tr[k].op = op /\ tr[k].sub = sub
NoForward(tr) == Events(tr, "submit") \cup Events(tr, "add_comment") = {}
Occurrences(e) == {i \in DOMAIN appended : appended[i] = e}
PairOf(p, sub) == <<p.url, sub>>

\* C1: a pair that was recorded and forwarded is not submitted again while
\* fewer than MAXLEN other pairs have been recorded since: submit is reached
\* only right after the pair was recorded, and two recordings of one pair lie
\* at least MAXLEN other recordings apart.
C1_AtMostOnceInWindow ==
    /\ \A k \in Events(trace, "submit") :
           /\ k > 3
           /\ trace[k - 3] = Ev("append", trace[k].sub, "recent_posts")
    /\ \A i, j \in DOMAIN appended :
           (i < j /\ appended[i] = appended[j]) => j - i - 1 >= MAXLEN

\* a pair is forwarded a second time, more than MAXLEN other pairs later
C1_Witness ==
    /\ Did(trace, "submit", "subA")
    /\ \E i \in DOMAIN appended :
           /\ appended[i] = PairOf(post, "subA")
           /\ appended[Len(appended)] = PairOf(post, "subA")
           /\ Len(appended) - i - 1 > MAXLEN

\* C2: a post that the global filter rejects is forwarded to no destination:
\* no submit and no add_comment, nothing is recorded, no destination is asked.
C2_RejectedNeverForwarded ==
    (post # NoPost /\ ~Check(post)) =>
        /\ NoForward(trace)
        /\ Events(trace, "append") = {}
        /\ Len(trace) = 1

\* a rejected post that both destinations would accept, by an old account
C2_Witness ==
    /\ post # NoPost
    /\ ~Check(post)
    /\ post.accepts = AllSubs
    /\ AgeDays(Now, post.created_utc) > 2
    /\ trace = <<Ev("check", "-", "False")>>

\* C3: when the stream raises HTTPException, run sleeps 60 * RETRY_MINUTES
\* seconds and goes back to consuming the stream; the process does not exit.
C3_BackoffThenResume ==
    [][(pc = "except_http" /\ post = NoPost) =>
           (pc' = "iter" /\ slept' = 60 * RETRY_MINUTES)]_vars

\* C4: when the stream ends, run logs it and goes on, without sleeping, with
\* a fresh stream that can deliver the items that arrive afterwards.
C4_ReconnectAfterEnd ==
    [][(restarts' = restarts + 1) =>
           (pc' = "iter" /\ slept' = slept /\ stream' = "live")]_vars

\* C5: once MAXLEN + 1 pairs have been recorded, the pair recorded MAXLEN
\* recordings before the latest is no longer in the cache while the latest
\* MAXLEN are; a crosspost call for that evicted pair records it again and
\* submits it.
C5_EvictionOfOldest ==
    /\ [](Len(appended) > MAXLEN =>
            LET n == Len(appended)
            IN  /\ ~InDeque(appended[n - MAXLEN], recent_posts)
                /\ \A i \in (n - MAXLEN + 1)..n :
                       InDeque(appended[i], recent_posts))
    /\ [][\A sub \in AllSubs :
            (/\ Len(appended) > MAXLEN
             /\ appended[Len(appended) - MAXLEN] = PairOf(post', sub)
             /\ Called(trace', sub))
            => (/\ Did(trace', "append", sub)
                /\ Did(trace', "submit", sub)
                /\ InDeque(PairOf(post', sub), recent_posts'))]_vars

\* the first pair is recorded again right after MAXLEN other pairs
C5_Witness ==
    /\ Len(appended) = MAXLEN + 2
    /\ appended[MAXLEN + 2] = appended[1]
    /\ Did(trace, "submit", appended[1][2])
    /\ ~InDeque(appended[2], recent_posts)

\* C6: a pass in which every crosspost call is for a pair already in the
\* cache forwards nothing and leaves the cache as it is; a pair is in the
\* cache exactly while fewer than MAXLEN pairs were recorded after its own
\* recording, whatever re-checks happened in between.
C6_NoRefreshOnRecheck ==
    /\ [][(/\ \E sub \in AllSubs : Called(trace', sub)
           /\ \A sub \in AllSubs :
                  Called(trace', sub) => InDeque(PairOf(post', sub), recent_posts))
          => (/\ recent_posts' = recent_posts
              /\ appended' = appended
              /\ NoForward(trace')
              /\ \A sub \in AllSubs :
                     Called(trace', sub) =>
                         \E k \in DOMAIN trace' :
                             trace'[k] = Ev("log_info", sub, "already_posted"))]_vars
    /\ [](\A i \in DOMAIN appended :
            InDeque(appended[i], recent_posts) <=>
                \E j \in Occurrences(appended[i]) : Len(appended) - j < MAXLEN)

\* a pair is re-checked, and later it is the oldest entry of the full cache
C6_Witness ==
    /\ Len(recent_posts) = MAXLEN
    /\ recent_posts[1] = PairOf(post, "subB")
    /\ trace = <<Ev("check", "-", "True"), Ev("sub_check", "subA", "False"),
                 Ev("sub_check", "subB", "True"), Ev("verify_age", "subB", "True"),
                 Ev("log_info", "subB", "already_posted")>>
\* the same letter, in either case
SameLetter(c, d) ==
    c = d \/ \E i \in DOMAIN Uppers : {c, d} = {Uppers[i], Lowers[i]}
\* the strings a and b are equal when case is ignored
CaseEq(a, b) == Len(a) = Len(b) /\ \A i \in DOMAIN a : SameLetter(a[i], b[i])
\* the verdict of the global filter on the post of the last pass
Passed == trace[1] = Ev("check", "-", "True")
Listed(name, blacklist) == \E e \in blacklist : CaseEq(name, e)

\* C7: the global filter accepts a post exactly when none of the three
\* rejections applies (adult post while NSFW is not allowed, author in the
\* user blacklist, source channel in the subreddit blacklist) and the domain
\* pattern matches the domain or the extension pattern matches the URL.
C7_CheckDecision ==
    post # NoPost =>
        (Passed <=>
            /\ ~(post.over_18 /\ ~nsfw_ok)
            /\ Lower(post.author) \notin blacklist_users
            /\ Lower(post.subreddit) \notin blacklist_subs
            /\ \/ DomainSearch(DOMAINS, post.domain)
               \/ ExtSearch(EXTENSIONS, post.url))

\* a post accepted on its extension alone
C7_Witness ==
    /\ post # NoPost
    /\ Passed
    /\ post.domain = Dom_other
    /\ post.url = Url_a_JPG
    /\ Events(trace, "submit") # {}

\* C8: the age gate rejects an author whose account is less than three whole
\* days old (two days and any part of the third included) and accepts from
\* exactly three days on.
C8_AgeBoundary ==
    \A k \in Events(trace, "verify_age") :
        (\A j \in Events(trace, "verify_age") : k <= j) =>
            ((trace[k].res = "True") <=>
                 Now - post.created_utc >= 3 * SECONDS_PER_DAY)

\* an author exactly three days old is accepted
C8_Witness ==
    /\ Now - post.created_utc = 3 * SECONDS_PER_DAY
    /\ Events(trace, "verify_age") # {}
    /\ Events(trace, "submit") # {}

\* C9: a post whose author, or whose source channel, equals an entry of the
\* loaded blacklist when case is ignored is rejected by the global filter;
\* the loaded entries hold no upper-case letter.
C9_CaseInsensitiveBlacklist ==
    /\ \A e \in blacklist_users \cup blacklist_subs :
           \A i \in DOMAIN e : e[i] \notin UpperSet
    /\ (post # NoPost /\ (\/ Listed(post.author, blacklist_users)
                          \/ Listed(post.subreddit, blacklist_subs)))
           => ~Passed

\* user "Foo" is blocked by the entry "foo", nothing else speaks against the post
C9_Witness ==
    /\ post # NoPost
    /\ post.author = N_Foo
    /\ N_foo \in blacklist_users
    /\ ~post.over_18
    /\ ~Listed(post.subreddit, blacklist_subs)
    /\ post.domain = Dom_Imgur
    /\ ~Passed

Rejections == {"AlreadySubmitted", "APIException"}
Transport == {"HTTPException", "ConnectionError"}
\* the calls of the pass that the platform rejected
Rejected ==
    {k \in Events(trace, "submit") \cup Events(trace, "add_comment") :
        trace[k].res \in Rejections}

\* C10: a conflict or another platform rejection of submit or add_comment is
\* handled in crosspost: the conflict is logged at info level, the other
\* rejection as a warning, the destination is not tried again, every
\* destination of the registry is still examined, and run stays in its loop
\* over a live stream.
C10_RejectionContained ==
    \A k \in Rejected :
        LET sub == trace[k].sub
        IN  /\ k < Len(trace)
            /\ trace[k].res = "AlreadySubmitted" =>
                   /\ trace[k + 1] = Ev("log_info", sub, "already_submitted")
                   /\ ~Did(trace, "log_warning", sub)
            /\ trace[k].res = "APIException" =>
                   trace[k + 1] = Ev("log_warning", sub, "api_exception")
            /\ Cardinality({j \in Events(trace, "submit") : trace[j].sub = sub}) = 1
            /\ \A other \in AllSubs : Did(trace, "sub_check", other)
            /\ \A other \in AllSubs \ {sub} :
                   Called(trace, other) =>
                       \/ Did(trace, "append", other)
                       \/ Did(trace, "log_info", other)
            /\ \/ pc = "iter" /\ stream = "live"
               \/ \E j \in DOMAIN trace : trace[j].res \in Transport

\* subA answers with a conflict, and subB receives the post after it
C10_Witness ==
    /\ \E k \in Rejected : trace[k] = Ev("submit", "subA", "AlreadySubmitted")
    /\ \E k \in DOMAIN trace : trace[k] = Ev("add_comment", "subB", "ok")
    /\ pc = "iter"
\* C11: a transport failure raised by submit or add_comment reaches the
\* handlers of run and is treated as the same failure of the stream read: on
\* HTTPException run sleeps 60 * RETRY_MINUTES seconds, on ConnectionError it
\* does not sleep, and in both cases it goes back to its loop over the stream.
C11_ForwardTransportFailure ==
    [][(pc \in {"except_http", "except_conn"} /\ post # NoPost) =>
           /\ \E k \in DOMAIN trace :
                  trace[k].op \in {"submit", "add_comment"} /\ trace[k].res \in Transport
           /\ pc' = "iter"
           /\ stream' = "live"
           /\ slept' = (IF pc = "except_http" THEN 60 * RETRY_MINUTES ELSE slept)]_vars

\* C12: after requests.ConnectionError from the stream read, run does not
\* sleep and goes on with a stream that delivers the items arriving afterwards.
C12_ReconnectAfterConnectionError ==
    [][(pc = "except_conn" /\ post = NoPost) =>
           (pc' = "iter" /\ slept' = slept /\ stream' = "live")]_vars

\* the account of the author of the last post is less than three days old
Young == Now - post.created_utc < 3 * SECONDS_PER_DAY
\* the first destination of the registry that accepts the last post
FirstAccepting ==
    SLAVE_SUBS[CHOOSE i \in DOMAIN SLAVE_SUBS :
                  /\ SubCheck(SLAVE_SUBS[i], post)
                  /\ \A j \in 1..(i - 1) : ~SubCheck(SLAVE_SUBS[j], post)]

\* C13: when the age gate fails, _do_post ends at the first destination that
\* accepts the post: nothing is forwarded or recorded, no later destination
\* is examined, and run stays in its loop.
C13_AgeGateEndsPass ==
    (post # NoPost /\ Check(post) /\ post.accepts # {} /\ Young) =>
        /\ trace[Len(trace)] = Ev("verify_age", FirstAccepting, "False")
        /\ Cardinality(Events(trace, "verify_age")) = 1
        /\ \A k \in Events(trace, "sub_check") :
               trace[k].res = "True" => trace[k].sub = FirstAccepting
        /\ NoForward(trace)
        /\ Events(trace, "append") = {}
        /\ pc = "iter"

\* a young author's post that both destinations accept ends at subA
C13_Witness ==
    /\ post # NoPost
    /\ post.accepts = AllSubs
    /\ AgeDays(Now, post.created_utc) = 2
    /\ trace = <<Ev("check", "-", "True"), Ev("sub_check", "subA", "True"),
                 Ev("verify_age", "subA", "False")>>
\* C14: recent_posts is read and changed only in crosspost, which is reached
\* after the global filter, the destination's check and the age gate, in
\* that order: a step that changes the cache is a pass that recorded a pair;
\* a post the filter rejects, a destination that does not accept the post
\* and a failed age gate leave the cache as it was.
C14_CacheOnlyInCrosspost ==
    [][/\ (recent_posts' # recent_posts) =>
              (post' # NoPost /\ Events(trace', "append") # {})
       /\ (post' # NoPost /\ ~Check(post')) => recent_posts' = recent_posts
       /\ (post' # NoPost /\ Check(post') /\ post'.accepts # {} /\ Young') =>
              recent_posts' = recent_posts
       /\ \A sub \in AllSubs :
              (post' # NoPost /\ ~SubCheck(sub, post')) =>
                  (InDeque(PairOf(post', sub), recent_posts')
                       <=> InDeque(PairOf(post', sub), recent_posts))
       /\ \A k \in DOMAIN trace' :
              (\/ trace'[k].op = "append"
               \/ trace'[k] = Ev("log_info", trace'[k].sub, "already_posted")) =>
                  /\ k > 2
                  /\ trace'[1] = Ev("check", "-", "True")
                  /\ trace'[k - 2] = Ev("sub_check", trace'[k].sub, "True")
                  /\ trace'[k - 1] = Ev("verify_age", trace'[k].sub, "True")]_vars

\* one pass leaves the cache alone for subA, which does not accept the post,
\* and records the pair of subB
C14_Witness ==
    /\ post # NoPost
    /\ post.accepts = {"subB"}
    /\ trace[2] = Ev("sub_check", "subA", "False")
    /\ Did(trace, "append", "subB")
    /\ InDeque(PairOf(post, "subB"), recent_posts)
    /\ ~InDeque(PairOf(post, "subA"), recent_posts)

\* C15: add_comment is called only right after submit for the same
\* destination returned, at most once per submission; when submit raised,
\* no add_comment is attempted for that destination.
C15_CommentAfterSubmit ==
    /\ \A k \in Events(trace, "add_comment") :
           /\ k > 2
           /\ trace[k - 2] = Ev("submit", trace[k].sub, "ok")
           /\ \A j \in Events(trace, "add_comment") :
                  trace[j].sub = trace[k].sub => j = k
    /\ \A k \in Events(trace, "submit") :
           /\ \A j \in Events(trace, "submit") :
                  trace[j].sub = trace[k].sub => j = k
           /\ trace[k].res # "ok" => ~Did(trace, "add_comment", trace[k].sub)

\* subA is submitted and annotated, the submit for subB is rejected
C15_Witness ==
    /\ \E k \in DOMAIN trace : trace[k] = Ev("add_comment", "subA", "ok")
    /\ \E k \in DOMAIN trace : trace[k] = Ev("submit", "subB", "AlreadySubmitted")
    /\ ~Did(trace, "add_comment", "subB")

\* C16: the cache never holds more than MAXLEN pairs, and it holds exactly
\* the latest recordings in the order in which they were made: a recording
\* into a full cache drops the oldest pair and no other.
C16_BoundedArrivalOrder ==
    LET n == Len(appended)
        m == IF n > MAXLEN THEN MAXLEN ELSE n
    IN  /\ Len(recent_posts) <= MAXLEN
        /\ recent_posts = SubSeq(appended, n - m + 1, n)

\* three pairs were recorded into the full cache
C16_Witness ==
    /\ Len(appended) = MAXLEN + 3
    /\ Len(recent_posts) = MAXLEN
    /\ recent_posts[1] = appended[4]
    /\ recent_posts[MAXLEN] = appended[MAXLEN + 3]
\* C18: the cache never holds the same pair twice.
C18_NoDuplicatePair ==
    \A i, j \in DOMAIN recent_posts :
        recent_posts[i] = recent_posts[j] => i = j

\* in one pass over a full cache the pair of subA is found and skipped and
\* the pair of subB is recorded
C18_Witness ==
    /\ Len(recent_posts) = MAXLEN
    /\ \E k \in DOMAIN trace : trace[k] = Ev("log_info", "subA", "already_posted")
    /\ Did(trace, "append", "subB")
    /\ Cardinality({recent_posts[i] : i \in DOMAIN recent_posts}) = MAXLEN

\* the calls of the last pass that did not succeed
Failed ==
    {k \in Events(trace, "submit") \cup Events(trace, "add_comment") :
        trace[k].res # "ok"}

\* C19: the pair is recorded before submit is tried and no failure of submit
\* or add_comment (conflict, rejection, transport failure) takes it out of
\* the cache; a later crosspost call for a pair that is in the cache logs
\* that it was already posted and tries neither submit nor add_comment.
C19_FailedPairStaysCached ==
    /\ [](\A k \in Failed :
            /\ InDeque(PairOf(post, trace[k].sub), recent_posts)
            /\ \E j \in 1..(k - 1) : trace[j] = Ev("append", trace[k].sub, "recent_posts"))
    /\ [][\A sub \in AllSubs :
            (/\ pc = "iter"
             /\ Called(trace', sub)
             /\ InDeque(PairOf(post', sub), recent_posts))
            => (/\ ~Did(trace', "submit", sub)
                /\ ~Did(trace', "add_comment", sub)
                /\ \E k \in DOMAIN trace' :
                       trace'[k] = Ev("log_info", sub, "already_posted")
                /\ InDeque(PairOf(post', sub), recent_posts'))]_vars

\* submit for subA failed with ConnectionError, run handled it and is back
\* at its loop over the live stream with the pair still in the cache
C19_Witness ==
    /\ pc = "iter"
    /\ stream = "live"
    /\ \E k \in Failed : trace[k] = Ev("submit", "subA", "ConnectionError")
    /\ InDeque(PairOf(post, "subA"), recent_posts)

\* C20: with should_post False no pass calls submit or add_comment, while
\* every pass changes the cache exactly as it would with should_post True
\* and a platform that accepts everything: a pair that reaches crosspost is
\* recorded if it is not in the cache and skipped if it is.
C20_DryRun ==
    /\ [](~should_post => NoForward(trace))
    /\ [][(~should_post /\ pc = "iter" /\ post' # NoPost) =>
            LET r == DoPost(post', recent_posts, Now, TRUE,
                            [sub \in AllSubs |-> OkAnswer])
            IN  /\ recent_posts' = r.cache
                /\ appended' = appended \o r.new
                /\ trace' = SelectSeq(r.trace,
                                      LAMBDA e : e.op \notin {"submit", "add_comment"})
                /\ \A sub \in AllSubs :
                       Called(trace', sub) =>
                           IF InDeque(PairOf(post', sub), recent_posts)
                           THEN /\ ~Did(trace', "append", sub)
                                /\ \E k \in DOMAIN trace' :
                                       trace'[k] = Ev("log_info", sub, "already_posted")
                           ELSE /\ Cardinality({k \in Events(trace', "append") :
                                                   trace'[k].sub = sub}) = 1
                                /\ InDeque(PairOf(post', sub), recent_posts')]_vars

\* a dry run skips the cached pair of subA and records the pair of subB
C20_Witness ==
    /\ ~should_post
    /\ \E k \in DOMAIN trace : trace[k] = Ev("log_info", "subA", "already_posted")
    /\ Did(trace, "append", "subB")
    /\ trace[Len(trace)] = Ev("log_debug", "subB", "commenting")
    /\ Len(appended) = 4
\* the steps that the options select, in the order of start_points
Selected ==
    IF only # None THEN <<only>>
    ELSE IF start_at # None
    THEN SubSeq(start_points, Index(start_at), Len(start_points))
    ELSE start_points

\* C17: when main has ended, the steps it attempted are the selected ones in
\* the order of start_points: with --only p exactly p, also when --start-at
\* is given; with --start-at p alone exactly the steps from p on; with
\* neither option all seven.
C17_SelectedStepsAttempted ==
    MainEnded => attempted = Selected
====
